---- MODULE Spec2Model ----
(***************************************************************************)
(* A model of mcp_grafana's stateless HTTP transport adapter               *)
(* (transports/http.py: make_streams, initialize, handle_message) and of   *)
(* its credential middlewares (transports/http.py: GrafanaAuthMiddleware,   *)
(* middleware.py: GrafanaMiddleware).                                       *)
(*                                                                         *)
(* Spec     one inbound HTTP request served by handle_message, with the    *)
(*          RPC engine (mcp Server.run) as a concurrent task on the other  *)
(*          ends of the request's StreamPair.                              *)
(* SpecCtx  concurrent requests passing through a credential middleware,    *)
(*          each in its own task with its own contextvars context.         *)
(***************************************************************************)
EXTENDS Integers, Sequences, FiniteSets, TLC

VARIABLES
    \* ---- the inbound HTTP request (scope, body) ----
    method,       \* request.method
    path,         \* scope["path"]
    body,         \* the request body: [text |-> "garbage"] or [text |-> "json", obj |-> <object>]
    \* ---- handle_post_message ----
    pc,           \* position of the handler task
    herr,         \* the exception that ended the handler ("none" when it returned)
    client_message, \* the validated JSONRPCMessage (NoMessage before validation)
    responses,    \* HTTP responses the adapter has sent through `send`
    recvd,        \* messages the adapter has taken from write_stream_reader, in order
    \* ---- the StreamPair: which ends are open ----
    rsw,          \* read_stream_writer (adapter, sends client -> engine)
    rs,           \* read_stream        (engine, receives client -> engine)
    ws,           \* write_stream       (engine, sends engine -> client)
    wsr,          \* write_stream_reader(adapter, receives engine -> client)
    \* ---- the engine task (the body of `async with handle_message(...)`) ----
    eng,          \* "running" | "returned" | "failed" | "cancelled"
    engineSaw,    \* messages the engine has received on read_stream, in order
    owed,         \* messages the engine has still to send on write_stream, in order
    scope,        \* the task group of handle_message: "open" | "exited"
    served,       \* HTTP requests the server has finished before this one
    \* ---- http_client: the client-side transport posting to the server ----
    cpc,          \* position of http_rw ("off": the request comes from another client)
    cread,        \* what the caller has been sent on http_client's read_stream
    cerr,         \* the exception that left http_client's task group ("none")
    cwrites,      \* the caller's sends on http_client's write_stream: [by, state]
    copen,        \* the http_client context is open (its finally has not run)
    \* ---- the credential middleware (one entry per request task) ----
    stype,        \* ASGI scope type of each request ("http", "websocket", "lifespan")
    hdr,          \* request headers
    mw,           \* which middleware wraps the application, and its strictness
    mpc,          \* position of each request inside the middleware
    ctx,          \* contextvars context of each task: [settings, client]
    ctx0,         \* each request task's context when the request arrived
    tokens,       \* the reset tokens the middleware holds (None until set)
    status,       \* HTTP status the middleware itself produced (0: none)
    tool,         \* tool tasks: position, and the context copied at spawn
    phdr,         \* headers of the POST /messages/ request that delivered a tool call
    calls         \* upstream calls made by tools: [req, settings_url, client_url]

envVars == <<scope, served, cpc, cread, cerr, cwrites, copen>>
httpVars == <<method, path, body, pc, herr, client_message, responses, recvd,
              rsw, rs, ws, wsr, eng, engineSaw, owed, envVars>>
ctxVars == <<stype, hdr, mw, mpc, ctx, ctx0, tokens, status, tool, calls, phdr>>
vars == <<httpVars, ctxVars>>

-----------------------------------------------------------------------------
(* Bounds of the model *)

\* correlation ids a client may use are 1..MaxId (1 is also the bootstrap id)
MaxId == 2
\* engine-initiated notifications that may precede the reply to one request
MaxNotes == 1
\* HTTP requests sent one after the other to the same server
MaxRequests == 2

-----------------------------------------------------------------------------
(* JSON-RPC messages (mcp.types.JSONRPCMessage): a tagged union *)

Null == "null"

JSONRPCRequest(id, m, p) ==
    [kind |-> "request", jsonrpc |-> "2.0", id |-> id, method |-> m, params |-> p]
JSONRPCNotification(m, p) ==
    [kind |-> "notification", jsonrpc |-> "2.0", method |-> m, params |-> p]
JSONRPCResponse(id, r) ==
    [kind |-> "response", jsonrpc |-> "2.0", id |-> id, result |-> r]
JSONRPCError(id, e) ==
    [kind |-> "error", jsonrpc |-> "2.0", id |-> id, error |-> e]

NoMessage == [kind |-> "none"]
Invalid == [kind |-> "invalid"]

\* model_dump(by_alias=True, mode="json", exclude_none=True): the JSON object of a
\* message, without its type tag and without null-valued fields
ModelDump(m) ==
    LET keep == {k \in DOMAIN m \ {"kind"} : k = "params" => m[k] # Null}
    IN  [k \in keep |-> m[k]]

\* types.JSONRPCMessage.model_validate(json): the first member of the union
\* Request | Notification | Response | Error the object fits, else a ValidationError
ModelValidate(o) ==
    LET has(k) == k \in DOMAIN o
        params == IF has("params") THEN o.params ELSE Null
    IN  IF ~has("jsonrpc") THEN Invalid
        ELSE IF o.jsonrpc # "2.0" THEN Invalid
        ELSE IF has("id") /\ has("method") THEN JSONRPCRequest(o.id, o.method, params)
        ELSE IF has("method") THEN JSONRPCNotification(o.method, params)
        ELSE IF has("id") /\ has("result") THEN JSONRPCResponse(o.id, o.result)
        ELSE IF has("id") /\ has("error") THEN JSONRPCError(o.id, o.error)
        ELSE Invalid

\* the request initialize() synthesizes (id=1, method="initialize")
BootstrapId == 1
InitializeRequest == JSONRPCRequest(BootstrapId, "initialize", "InitializeRequestParams")
\* the notification initialize() synthesizes
InitializedNotification == JSONRPCNotification("notifications/initialized", Null)

-----------------------------------------------------------------------------
(* Inputs: the requests a client may send *)

Methods == {"POST", "GET"}
Paths == {"/mcp", "/other"}
Ids == 1..MaxId
Params == {Null, "args"}

ClientMessages ==
    {JSONRPCRequest(i, "tools/call", p) : i \in Ids, p \in Params}
    \cup {JSONRPCNotification(m, Null) :
            m \in {"notifications/initialized", "notifications/cancelled"}}
    \cup {JSONRPCResponse(i, "client-result") : i \in Ids}
    \cup {JSONRPCError(i, "client-error") : i \in Ids}

\* JSON objects that are no JSON-RPC message
InvalidObjects ==
    { [id |-> 2, method |-> "tools/call"],
      [jsonrpc |-> "1.0", id |-> 2, method |-> "tools/call"],
      [jsonrpc |-> "2.0", id |-> 2],
      [jsonrpc |-> "2.0", params |-> "args"] }

\* a valid Request whose JSON spells out "params": null
NullParamsObject ==
    [jsonrpc |-> "2.0", id |-> 2, method |-> "tools/call", params |-> Null]

Bodies ==
    {[text |-> "garbage"]}
    \cup {[text |-> "json", obj |-> o] : o \in InvalidObjects \cup {NullParamsObject}}
    \cup {[text |-> "json", obj |-> ModelDump(m)] : m \in ClientMessages}

-----------------------------------------------------------------------------
(* HTTP responses (starlette Response / PlainTextResponse / JSONResponse) *)

PlainText(s) == [text |-> s]
Response(content, status_code) == [status |-> status_code, body |-> content]
NoResponse == Response(PlainText(""), 0)

\* Route without its path check
RouteNoPathCheck(m, p, b) ==
    IF m # "POST" THEN Response(PlainText("Method not allowed"), 405)
    ELSE IF b.text # "json" THEN Response(PlainText("Could not parse message"), 400)
    ELSE IF ModelValidate(b.obj) = Invalid THEN Response(PlainText("Invalid message"), 400)
    ELSE NoResponse

\* Route without its schema validation
RouteNoValidation(m, p, b) ==
    IF m # "POST" THEN Response(PlainText("Method not allowed"), 405)
    ELSE IF p # "/mcp" THEN Response(PlainText("Not found"), 404)
    ELSE IF b.text # "json" THEN Response(PlainText("Could not parse message"), 400)
    ELSE NoResponse

\* Route with the path checked ahead of the method
RoutePathFirst(m, p, b) ==
    IF p # "/mcp" THEN Response(PlainText("Not found"), 404)
    ELSE IF m # "POST" THEN Response(PlainText("Method not allowed"), 405)
    ELSE IF b.text # "json" THEN Response(PlainText("Could not parse message"), 400)
    ELSE IF ModelValidate(b.obj) = Invalid THEN Response(PlainText("Invalid message"), 400)
    ELSE NoResponse

\* handle_post_message up to its first channel operation: the early returns
\* (405, 404, 400, 400), checked in the order of the code; NoResponse when the body
\* is a valid message and the handler goes on to the bootstrap
Route(m, p, b) ==
    IF m # "POST" THEN Response(PlainText("Method not allowed"), 405)
    ELSE IF p # "/mcp" THEN Response(PlainText("Not found"), 404)
    ELSE IF b.text # "json" THEN Response(PlainText("Could not parse message"), 400)
    ELSE IF ModelValidate(b.obj) = Invalid THEN Response(PlainText("Invalid message"), 400)
    ELSE NoResponse

\* IsNotification with the test dropped: every message is awaited like a Request
IsNotificationNever(m) == FALSE

\* IsNotification taking every message that is no Request for one that needs no
\* reply
IsNotificationOrReply(m) == m.kind # "request"

\* isinstance(client_message.root, types.JSONRPCNotification)
IsNotification(m) == m.kind = "notification"

\* handler positions blocked in read_stream_writer.send(...)
SendPcs == {"init_send", "notif_send", "msg_send"}
\* handler positions blocked in write_stream_reader.receive()
RecvPcs == {"init_recv", "reply_recv"}

\* Offered with the client's message sent ahead of the bootstrap
OfferedClientFirst(p, cm) ==
    IF p = "init_send" THEN cm
    ELSE IF p = "notif_send" THEN InitializeRequest
    ELSE InitializedNotification

\* the message the handler is sending at a send position:
\* initialize()'s request, initialize()'s notification, then the client's message
Offered(p, cm) ==
    IF p = "init_send" THEN InitializeRequest
    ELSE IF p = "notif_send" THEN InitializedNotification
    ELSE cm

\* AfterSend with initialize() not awaiting the acknowledgment
AfterSendNoAck(p, cm) ==
    IF p = "init_send" THEN "notif_send"
    ELSE IF p = "notif_send" THEN "msg_send"
    ELSE IF cm.kind = "notification" THEN "accepted"
    ELSE "reply_recv"

\* where the handler goes when its send has completed
AfterSend(p, cm) ==
    IF p = "init_send" THEN "init_recv"
    ELSE IF p = "notif_send" THEN "msg_send"
    ELSE IF IsNotification(cm) THEN "accepted"
    ELSE "reply_recv"

\* where the handler goes when its receive has returned a message
AfterReceive(p) ==
    IF p = "init_recv" THEN "notif_send" ELSE "replied"

\* ServerMessage taking the first message ever received (the bootstrap's)
FirstMessage(rcv) == rcv[1]

\* the server_message the 200 response serializes: the message just received
ServerMessage(rcv) == rcv[Len(rcv)]

-----------------------------------------------------------------------------
(* The engine (mcp Server.run on read_stream / write_stream): it acknowledges an
   initialize request, and answers any other request with a Response or an
   ErrorResponse of the same id, possibly after notifications of its own (logging,
   progress); notifications and responses it receives get no reply. *)

EngineNote == JSONRPCNotification("notifications/message", "log")

Notes(n) == [i \in 1..n |-> EngineNote]

EngineReplies(m, n, failed) ==
    IF m.kind # "request" THEN <<>>
    ELSE IF m.method = "initialize" THEN <<JSONRPCResponse(m.id, "InitializeResult")>>
    ELSE Notes(n) \o <<IF failed THEN JSONRPCError(m.id, "tool-error")
                                 ELSE JSONRPCResponse(m.id, "tool-result")>>

-----------------------------------------------------------------------------
(* Spec: one request through handle_message *)

InitCtxIdle ==
    /\ hdr = <<>> /\ mw = [kind |-> "none"] /\ mpc = <<>> /\ ctx = <<>> /\ ctx0 = <<>>
    /\ tokens = <<>> /\ status = <<>> /\ tool = <<>> /\ calls = {} /\ phdr = <<>>
    /\ stype = <<>>

\* make_streams(): two fresh zero-capacity streams, all four ends open
make_streams ==
    /\ rsw = TRUE /\ rs = TRUE /\ ws = TRUE /\ wsr = TRUE

Init ==
    /\ method \in Methods
    /\ path \in Paths
    /\ body \in Bodies
    /\ pc = "start"
    /\ herr = "none"
    /\ client_message = NoMessage
    /\ responses = <<>>
    /\ recvd = <<>>
    /\ make_streams
    /\ eng = "running"
    /\ engineSaw = <<>>
    /\ owed = <<>>
    /\ scope = "open"
    /\ served = 0
    /\ cpc = "off" /\ cread = <<>> /\ cerr = "none"
    /\ cwrites = <<>> /\ copen = FALSE
    /\ InitCtxIdle

\* the handler answers 405 / 404 / 400 and returns
RejectRequest ==
    /\ pc = "start"
    /\ Route(method, path, body) # NoResponse
    /\ responses' = Append(responses, Route(method, path, body))
    /\ pc' = "finally"
    /\ UNCHANGED <<method, path, body, herr, client_message, recvd,
                   rsw, rs, ws, wsr, eng, engineSaw, owed, envVars, ctxVars>>

\* the body validates: the handler enters initialize() and starts its first send
AcceptMessage ==
    /\ pc = "start"
    /\ Route(method, path, body) = NoResponse
    /\ client_message' = ModelValidate(body.obj)
    /\ pc' = "init_send"
    /\ UNCHANGED <<method, path, body, herr, responses, recvd,
                   rsw, rs, ws, wsr, eng, engineSaw, owed, envVars, ctxVars>>

\* EngineReceive on a stream with a buffer: the send of the client's message
\* completes into the buffer, with no receive of the engine
EngineReceiveBuffered ==
    /\ pc \in SendPcs
    /\ rs /\ eng = "running"
    /\ \E n \in 0..MaxNotes, failed \in BOOLEAN :
         LET m == Offered(pc, client_message)
         IN  IF pc = "msg_send"
             THEN engineSaw' = engineSaw /\ owed' = owed
             ELSE /\ engineSaw' = Append(engineSaw, m)
                  /\ owed' = owed \o EngineReplies(m, n, failed)
    /\ pc' = AfterSend(pc, client_message)
    /\ UNCHANGED <<method, path, body, herr, client_message, responses, recvd,
                   rsw, rs, ws, wsr, eng, envVars, ctxVars>>

\* a zero-capacity send completes when the engine receives the message
EngineReceive ==
    /\ pc \in SendPcs
    /\ rs /\ eng = "running"
    /\ \E n \in 0..MaxNotes, failed \in BOOLEAN :
         LET m == Offered(pc, client_message)
         IN  /\ engineSaw' = Append(engineSaw, m)
             /\ owed' = owed \o EngineReplies(m, n, failed)
    /\ pc' = AfterSend(pc, client_message)
    /\ UNCHANGED <<method, path, body, herr, client_message, responses, recvd,
                   rsw, rs, ws, wsr, eng, envVars, ctxVars>>

\* a send on a stream whose receiving end is closed raises BrokenResourceError
SendBroken ==
    /\ pc \in SendPcs
    /\ ~rs
    /\ herr' = "BrokenResourceError"
    /\ pc' = "finally"
    /\ UNCHANGED <<method, path, body, client_message, responses, recvd,
                   rsw, rs, ws, wsr, eng, engineSaw, owed, envVars, ctxVars>>

\* the engine sends the next message it owes: the handler's receive returns it
EngineSend ==
    /\ pc \in RecvPcs
    /\ ws /\ eng = "running"
    /\ owed # <<>>
    /\ recvd' = Append(recvd, Head(owed))
    /\ owed' = Tail(owed)
    /\ pc' = AfterReceive(pc)
    /\ UNCHANGED <<method, path, body, herr, client_message, responses,
                   rsw, rs, ws, wsr, eng, engineSaw, envVars, ctxVars>>

\* ReceiveEnd as a receive under a deadline: it gives up on its own
ReceiveEndTimeout ==
    /\ pc \in RecvPcs
    /\ herr' = "EndOfStream"
    /\ pc' = "finally"
    /\ UNCHANGED <<method, path, body, client_message, responses, recvd,
                   rsw, rs, ws, wsr, eng, engineSaw, owed, envVars, ctxVars>>

\* a receive on a stream whose sending end is closed raises EndOfStream
ReceiveEnd ==
    /\ pc \in RecvPcs
    /\ ~ws
    /\ herr' = "EndOfStream"
    /\ pc' = "finally"
    /\ UNCHANGED <<method, path, body, client_message, responses, recvd,
                   rsw, rs, ws, wsr, eng, engineSaw, owed, envVars, ctxVars>>

\* Cancelled reaching only a handler blocked in a send: a pending receive stays
CancelledInSendOnly ==
    /\ pc \in SendPcs
    /\ eng = "failed"
    /\ herr' = "Cancelled"
    /\ pc' = "finally"
    /\ UNCHANGED <<method, path, body, client_message, responses, recvd,
                   rsw, rs, ws, wsr, eng, engineSaw, owed, envVars, ctxVars>>

\* the engine raised: the task group cancels the handler, which is blocked in a
\* channel operation
Cancelled ==
    /\ pc \in SendPcs \cup RecvPcs
    /\ eng = "failed"
    /\ herr' = "Cancelled"
    /\ pc' = "finally"
    /\ UNCHANGED <<method, path, body, client_message, responses, recvd,
                   rsw, rs, ws, wsr, eng, engineSaw, owed, envVars, ctxVars>>

\* the client's message was a Notification: 202 "Accepted"
Respond202 ==
    /\ pc = "accepted"
    /\ responses' = Append(responses, Response(PlainText("Accepted"), 202))
    /\ pc' = "finally"
    /\ UNCHANGED <<method, path, body, herr, client_message, recvd,
                   rsw, rs, ws, wsr, eng, engineSaw, owed, envVars, ctxVars>>

\* Respond200 with the channel ends closed first and the response sent after
Respond200AfterClose ==
    /\ pc = "replied"
    /\ rsw' = FALSE
    /\ wsr' = FALSE
    /\ responses' = Append(responses, Response(ModelDump(ServerMessage(recvd)), 200))
    /\ pc' = "done"
    /\ UNCHANGED <<method, path, body, herr, client_message, recvd,
                   rs, ws, eng, engineSaw, owed, envVars, ctxVars>>

\* the engine's message, serialized, is the 200 body
Respond200 ==
    /\ pc = "replied"
    /\ responses' = Append(responses, Response(ModelDump(ServerMessage(recvd)), 200))
    /\ pc' = "finally"
    /\ UNCHANGED <<method, path, body, herr, client_message, recvd,
                   rsw, rs, ws, wsr, eng, engineSaw, owed, envVars, ctxVars>>

\* CloseStreams with the second aclose() missing: write_stream_reader stays open
CloseStreamsWriterOnly ==
    /\ pc = "finally"
    /\ rsw' = FALSE
    /\ pc' = "done"
    /\ UNCHANGED <<method, path, body, herr, client_message, responses, recvd,
                   rs, ws, wsr, eng, engineSaw, owed, envVars, ctxVars>>

\* CloseStreams with the first aclose() missing: read_stream_writer stays open
CloseStreamsReaderOnly ==
    /\ pc = "finally"
    /\ wsr' = FALSE
    /\ pc' = "done"
    /\ UNCHANGED <<method, path, body, herr, client_message, responses, recvd,
                   rsw, rs, ws, eng, engineSaw, owed, envVars, ctxVars>>

\* finally: read_stream_writer.aclose(); write_stream_reader.aclose()
CloseStreams ==
    /\ pc = "finally"
    /\ rsw' = FALSE
    /\ wsr' = FALSE
    /\ pc' = "done"
    /\ UNCHANGED <<method, path, body, herr, client_message, responses, recvd,
                   rs, ws, eng, engineSaw, owed, envVars, ctxVars>>

\* the engine closes its receiving end
EngineCloseRead ==
    /\ eng = "running" /\ rs
    /\ rs' = FALSE
    /\ UNCHANGED <<method, path, body, pc, herr, client_message, responses, recvd,
                   rsw, ws, wsr, eng, engineSaw, owed, envVars, ctxVars>>

\* the engine closes its sending end
EngineCloseWrite ==
    /\ eng = "running" /\ ws
    /\ ws' = FALSE
    /\ UNCHANGED <<method, path, body, pc, herr, client_message, responses, recvd,
                   rsw, rs, wsr, eng, engineSaw, owed, envVars, ctxVars>>

\* the engine task raises
EngineFail ==
    /\ eng = "running"
    /\ eng' = "failed"
    /\ UNCHANGED <<method, path, body, pc, herr, client_message, responses, recvd,
                   rsw, rs, ws, wsr, engineSaw, owed, envVars, ctxVars>>

\* the engine task returns
EngineReturn ==
    /\ eng = "running"
    /\ eng' = "returned"
    /\ UNCHANGED <<method, path, body, pc, herr, client_message, responses, recvd,
                   rsw, rs, ws, wsr, engineSaw, owed, envVars, ctxVars>>

\* the handler ended with an exception: the task group cancels the engine task
HostCancelled ==
    /\ pc = "done"
    /\ herr \in {"BrokenResourceError", "EndOfStream"}
    /\ eng = "running"
    /\ eng' = "cancelled"
    /\ UNCHANGED <<method, path, body, pc, herr, client_message, responses, recvd,
                   rsw, rs, ws, wsr, engineSaw, owed, envVars, ctxVars>>

\* the engine receives on read_stream after the handler closed its sending end:
\* nothing is buffered in a zero-capacity stream, so the receive ends with
\* EndOfStream and the engine's receive loop is over
EngineReceiveEnd ==
    /\ eng = "running" /\ rs
    /\ ~rsw
    /\ eng' = "end_of_stream"
    /\ UNCHANGED <<method, path, body, pc, herr, client_message, responses, recvd,
                   rsw, rs, ws, wsr, engineSaw, owed, envVars, ctxVars>>

\* the engine sends a message it owes on write_stream after the handler closed its
\* receiving end: the send raises BrokenResourceError
EngineSendBroken ==
    /\ eng = "running" /\ ws
    /\ owed # <<>>
    /\ ~wsr
    /\ eng' = "broken_resource"
    /\ UNCHANGED <<method, path, body, pc, herr, client_message, responses, recvd,
                   rsw, rs, ws, wsr, engineSaw, owed, envVars, ctxVars>>

\* handle_message's task group exits: the engine (the body of the async with) is
\* over and the handler task has ended
TaskGroupExit ==
    /\ scope = "open"
    /\ pc = "done" /\ eng # "running"
    /\ scope' = "exited"
    /\ UNCHANGED <<method, path, body, pc, herr, client_message, responses, recvd,
                   rsw, rs, ws, wsr, eng, engineSaw, owed, served, cpc, cread, cerr,
                   cwrites, copen, ctxVars>>

\* NewRequest on a StreamPair made once for the server: the ends stay as the
\* request before left them
NewRequestSharedStreams ==
    /\ scope = "exited" /\ cpc = "off"
    /\ served + 1 < MaxRequests
    /\ served' = served + 1
    /\ pc' = "start" /\ herr' = "none" /\ client_message' = NoMessage
    /\ responses' = <<>> /\ recvd' = <<>>
    /\ eng' = "running" /\ engineSaw' = <<>> /\ owed' = <<>>
    /\ scope' = "open"
    /\ UNCHANGED <<method, path, body, rsw, rs, ws, wsr, cpc, cread, cerr,
                   cwrites, copen, ctxVars>>

\* the client sends the same request again, as a new HTTP request, after the one
\* before is over: handle_http is called anew, handle_message makes its streams
\* and its handler's locals, and Server.run starts a new session
NewRequest ==
    /\ scope = "exited" /\ cpc = "off"
    /\ served + 1 < MaxRequests
    /\ served' = served + 1
    /\ pc' = "start" /\ herr' = "none" /\ client_message' = NoMessage
    /\ responses' = <<>> /\ recvd' = <<>>
    /\ rsw' = TRUE /\ rs' = TRUE /\ ws' = TRUE /\ wsr' = TRUE
    /\ eng' = "running" /\ engineSaw' = <<>> /\ owed' = <<>>
    /\ scope' = "open"
    /\ UNCHANGED <<method, path, body, cpc, cread, cerr, cwrites, copen, ctxVars>>

Next ==
    \/ TaskGroupExit
    \/ NewRequest
    \/ EngineReceiveEnd
    \/ EngineSendBroken
    \/ RejectRequest
    \/ AcceptMessage
    \/ EngineReceive
    \/ SendBroken
    \/ EngineSend
    \/ ReceiveEnd
    \/ Cancelled
    \/ Respond202
    \/ Respond200
    \/ CloseStreams
    \/ EngineCloseRead
    \/ EngineCloseWrite
    \/ EngineFail
    \/ EngineReturn
    \/ HostCancelled

Spec == Init /\ [][Next]_vars

\* the event loop runs a task that is ready: a cancellation the task group has
\* requested is delivered to the blocked handler, and the handler's finally clause,
\* which has no suspension point, runs to its end
SpecFair == Init /\ [][Next]_vars /\ WF_vars(Cancelled) /\ WF_vars(CloseStreams)

\* the event loop resumes an engine whose receive on read_stream is pending once
\* the stream's sending end is closed, and completes the exit of the task group
\* once the body and the handler task are over
SpecFairEngine ==
    Init /\ [][Next]_vars /\ WF_vars(EngineReceiveEnd) /\ WF_vars(TaskGroupExit)

-----------------------------------------------------------------------------
(* SpecClient: http_client (the client-side transport) posting one message of
   its caller to a server that serves the URL with handle_message.  http_rw
   receives one message from write_stream_reader, posts it, validates the response
   body as a JSON-RPC message and sends that on read_stream_writer. *)

\* body.model_dump_json(by_alias=True): every field, null-valued ones included
ModelDumpJson(m) == [k \in DOMAIN m \ {"kind"} |-> m[k]]

\* types.JSONRPCMessage.model_validate_json(response.content): a body that is no
\* JSON object (plain text) or no JSON-RPC message is a ValidationError
ModelValidateJson(content) ==
    IF "text" \in DOMAIN content THEN Invalid ELSE ModelValidate(content)

\* the response the server's HTTP layer gives the client: the adapter's, or 500
\* "Internal Server Error" when the application ended without sending one
InternalServerError == Response(PlainText("Internal Server Error"), 500)
HttpResponse == IF responses # <<>> THEN responses[1] ELSE InternalServerError
HttpResponseReady == responses # <<>> \/ scope = "exited"

InitClient ==
    /\ method = "POST"
    /\ path \in Paths
    /\ body = [text |-> "none"]
    /\ pc = "off" /\ herr = "none" /\ client_message = NoMessage
    /\ responses = <<>> /\ recvd = <<>>
    /\ rsw = FALSE /\ rs = FALSE /\ ws = FALSE /\ wsr = FALSE
    /\ eng = "off" /\ engineSaw = <<>> /\ owed = <<>>
    /\ scope = "off" /\ served = 0
    /\ cpc = "receive" /\ cread = <<>> /\ cerr = "none"
    /\ cwrites = <<>> /\ copen = TRUE
    /\ InitCtxIdle

\* sends the caller makes on write_stream in one context
MaxWrites == 2
\* who sends on write_stream: the body of the async with, or a task the caller runs
\* beside it
Senders == {"body", "task"}
Blocked(by) == \E i \in 1..Len(cwrites) : cwrites[i] = [by |-> by, state |-> "blocked"]
\* the sends still pending when the context goes: `body_ends` is how a pending
\* send of the body ends, a pending send of another task fails on the closed
\* write_stream_reader (BrokenResourceError)
EndWrites(w, body_ends) ==
    [i \in 1..Len(w) |->
        IF w[i].state # "blocked" THEN w[i]
        ELSE [w[i] EXCEPT !.state = IF w[i].by = "body" THEN body_ends ELSE "broken"]]

\* the caller writes a message on write_stream; http_rw receives it, serializes it
\* and starts the POST
ClientWrite ==
    /\ cpc = "receive"
    /\ copen
    /\ \E m \in ClientMessages : body' = [text |-> "json", obj |-> ModelDumpJson(m)]
    /\ \E by \in Senders : cwrites' = Append(cwrites, [by |-> by, state |-> "taken"])
    /\ cpc' = "post"
    /\ UNCHANGED <<method, path, pc, herr, client_message, responses, recvd,
                   rsw, rs, ws, wsr, eng, engineSaw, owed, scope, served, cread, cerr,
                   copen, ctxVars>>

\* the caller writes a further message: http_rw receives only once, so the send on
\* the zero-capacity write_stream finds no receiver and stays pending
ClientWriteBlocks ==
    /\ cpc \in {"post", "send", "done"}
    /\ copen
    /\ Len(cwrites) < MaxWrites
    /\ \E by \in Senders :
         /\ ~Blocked(by)
         /\ cwrites' = Append(cwrites, [by |-> by, state |-> "blocked"])
    /\ UNCHANGED <<method, path, body, pc, herr, client_message, responses, recvd,
                   rsw, rs, ws, wsr, eng, engineSaw, owed, scope, served,
                   cpc, cread, cerr, copen, ctxVars>>

\* the POST reaches the server: handle_http calls handle_message and runs the engine
ClientPostArrives ==
    /\ cpc = "post" /\ pc = "off"
    /\ pc' = "start"
    /\ rsw' = TRUE /\ rs' = TRUE /\ ws' = TRUE /\ wsr' = TRUE
    /\ eng' = "running"
    /\ scope' = "open"
    /\ UNCHANGED <<method, path, body, herr, client_message, responses, recvd,
                   engineSaw, owed, served, cpc, cread, cerr, cwrites, copen, ctxVars>>

\* client.post raises (connection refused or lost, read timeout): nothing catches
\* it in http_rw, and it leaves the task group
ClientPostFails ==
    /\ cpc = "post"
    /\ cerr' = "HTTPError"
    /\ cpc' = "raised"
    /\ UNCHANGED <<method, path, body, pc, herr, client_message, responses, recvd,
                   rsw, rs, ws, wsr, eng, engineSaw, owed, scope, served, cread,
                   cwrites, copen, ctxVars>>

\* the response arrives: whatever its status, its body is validated as a JSON-RPC
\* message; a ValidationError leaves the task group
ClientResponse ==
    /\ cpc = "post"
    /\ HttpResponseReady
    /\ IF ModelValidateJson(HttpResponse.body) = Invalid
       THEN cerr' = "ValidationError" /\ cpc' = "raised"
       ELSE cerr' = cerr /\ cpc' = "send"
    /\ UNCHANGED <<method, path, body, pc, herr, client_message, responses, recvd,
                   rsw, rs, ws, wsr, eng, engineSaw, owed, scope, served, cread,
                   cwrites, copen, ctxVars>>

\* read_stream_writer.send(message) completes when the caller receives
ClientDeliver ==
    /\ cpc = "send"
    /\ cread' = Append(cread, ModelValidateJson(HttpResponse.body))
    /\ cpc' = "done"
    /\ UNCHANGED <<method, path, body, pc, herr, client_message, responses, recvd,
                   rsw, rs, ws, wsr, eng, engineSaw, owed, scope, served, cerr,
                   cwrites, copen, ctxVars>>

\* the caller leaves the async with (its body is not pending in a send):
\* tg.cancel_scope.cancel() cancels http_rw where it is suspended, and the outer
\* finally closes read_stream_writer and write_stream_reader
ClientLeaves ==
    /\ cpc \in {"receive", "post", "send", "done"}
    /\ copen
    /\ ~Blocked("body")
    /\ cpc' = (IF cpc = "done" THEN "done" ELSE "cancelled")
    /\ copen' = FALSE
    /\ cwrites' = EndWrites(cwrites, "broken")
    /\ UNCHANGED <<method, path, body, pc, herr, client_message, responses, recvd,
                   rsw, rs, ws, wsr, eng, engineSaw, owed, scope, served, cread, cerr,
                   ctxVars>>

\* http_rw raised: the task group cancels its host, the body of the async with,
\* so a send pending there ends with the cancellation; the finally clauses run and
\* the exception leaves the context
ClientGroupFails ==
    /\ cpc = "raised"
    /\ copen
    /\ copen' = FALSE
    /\ cwrites' = EndWrites(cwrites, "cancelled")
    /\ UNCHANGED <<method, path, body, pc, herr, client_message, responses, recvd,
                   rsw, rs, ws, wsr, eng, engineSaw, owed, scope, served,
                   cpc, cread, cerr, ctxVars>>

NextClient ==
    \/ ClientWrite
    \/ ClientWriteBlocks
    \/ ClientGroupFails
    \/ ClientPostArrives
    \/ ClientPostFails
    \/ ClientResponse
    \/ ClientDeliver
    \/ ClientLeaves
    \/ RejectRequest
    \/ AcceptMessage
    \/ EngineReceive
    \/ SendBroken
    \/ EngineSend
    \/ ReceiveEnd
    \/ Cancelled
    \/ Respond202
    \/ Respond200
    \/ CloseStreams
    \/ EngineCloseRead
    \/ EngineCloseWrite
    \/ EngineFail
    \/ EngineReturn
    \/ HostCancelled
    \/ EngineReceiveEnd
    \/ EngineSendBroken
    \/ TaskGroupExit

SpecClient == InitClient /\ [][NextClient]_vars

-----------------------------------------------------------------------------
(* The credential middlewares: GrafanaAuthMiddleware (transports/http.py) and
   GrafanaMiddleware (middleware.py).  grafana_settings and grafana_client are
   contextvars: every task has a context of its own, a task started by another
   starts with a copy of its parent's context, and set/reset act on the context of
   the task that runs them. *)

\* tool tasks one request may start
MaxTools == 1

None == "None"

Requests == {1, 2}
\* the task serving request r, and the tool tasks started under it
RootTask(r) == <<r, 0>>
ToolTasks(r) == {<<r, i>> : i \in 1..MaxTools}
Tasks == UNION {{RootTask(r)} \cup ToolTasks(r) : r \in Requests}

Urls == {"http://A", "http://B", "http://["}
Headers ==
    [url : {None} \cup Urls, api_key : {None, "key"},
     access_token : {None, "access"}, id_token : {None, "id"}]
\* request 1 carries any combination of the four headers; request 2, its
\* concurrent sibling, any combination of the URL and the API key
HeadersOf(r) ==
    IF r = 1 THEN Headers
    ELSE {h \in Headers : h.access_token = None /\ h.id_token = None}

Middlewares ==
    { [kind |-> "auth", fail_if_unset |-> FALSE],
      [kind |-> "sse", fail_if_unset |-> TRUE],
      [kind |-> "sse", fail_if_unset |-> FALSE] }

NoInfo == [url |-> None]

\* transports/http.py GrafanaInfo.from_headers: the URL header alone decides
HttpFromHeaders(h) ==
    IF h.url = None THEN NoInfo
    ELSE [url |-> h.url, api_key |-> h.api_key,
          access_token |-> h.access_token, id_token |-> h.id_token]

\* middleware.py GrafanaInfo.from_headers: the URL header and the API key header
SseFromHeaders(h) ==
    IF h.url # None /\ h.api_key # None
    THEN [url |-> h.url, api_key |-> h.api_key, access_token |-> None, id_token |-> None]
    ELSE NoInfo

from_headers(m, h) == IF m.kind = "auth" THEN HttpFromHeaders(h) ELSE SseFromHeaders(h)

\* NewSettings built without tools=: the new settings get the default tool flags
NewSettingsDefaultTools(info, current_settings) ==
    [url |-> info.url, api_key |-> info.api_key, access_token |-> info.access_token,
     id_token |-> info.id_token, tools |-> "default-tools"]

\* GrafanaSettings(url=..., api_key=..., [access_token=..., id_token=...,]
\*                 tools=current_settings.tools)
NewSettings(info, current_settings) ==
    [url |-> info.url, api_key |-> info.api_key, access_token |-> info.access_token,
     id_token |-> info.id_token, tools |-> current_settings.tools]

\* GrafanaClient.from_settings(settings): the client of that backend; it raises on
\* a URL no client can be built for
ClientRaises(settings) == settings.url = "http://["
FromSettings(settings) ==
    [url |-> settings.url, api_key |-> settings.api_key,
     access_token |-> settings.access_token, id_token |-> settings.id_token]

\* the process-wide defaults of the two context variables
DefaultSettings ==
    [url |-> "http://default", api_key |-> None, access_token |-> None,
     id_token |-> None, tools |-> "default-tools"]
DefaultContext == [settings |-> DefaultSettings, client |-> FromSettings(DefaultSettings)]

NoToken == [set |-> FALSE]
\* ContextVar.set(value) returns a token remembering the variable's previous value
Token(old) == [set |-> TRUE, old |-> old]

\* CtxSet on a variable shared by all tasks (a module global)
CtxSetShared(c, t, var, value) == [u \in DOMAIN c |-> [c[u] EXCEPT ![var] = value]]

\* ContextVar.set in task t: only t's context changes
CtxSet(c, t, var, value) == [c EXCEPT ![t][var] = value]
\* CtxReset clearing the variable to the process default instead of the token's value
CtxResetToDefault(c, t, var, token) ==
    IF token.set
    THEN [c EXCEPT ![t][var] = IF var = "settings"
                               THEN [url |-> "http://default", api_key |-> None,
                                     access_token |-> None, id_token |-> None,
                                     tools |-> "default-tools"]
                               ELSE [url |-> "http://default", api_key |-> None,
                                     access_token |-> None, id_token |-> None]]
    ELSE c

\* ContextVar.reset(token) in task t: t's variable goes back to the token's value
CtxReset(c, t, var, token) ==
    IF token.set THEN [c EXCEPT ![t][var] = token.old] ELSE c

\* __aexit__ / finally: reset the settings variable, then the client variable
ResetBoth(c, t, tk) ==
    CtxReset(CtxReset(c, t, "settings", tk.settings), t, "client", tk.client)

ExitKinds == {"returned", "app_raised", "cancelled"}

InitHttpIdle ==
    /\ method = "POST" /\ path = "/mcp" /\ body = [text |-> "garbage"]
    /\ pc = "off" /\ herr = "none" /\ client_message = NoMessage
    /\ responses = <<>> /\ recvd = <<>>
    /\ rsw = FALSE /\ rs = FALSE /\ ws = FALSE /\ wsr = FALSE
    /\ eng = "off" /\ engineSaw = <<>> /\ owed = <<>>
    /\ scope = "off" /\ served = 0
    /\ cpc = "off" /\ cread = <<>> /\ cerr = "none"
    /\ cwrites = <<>> /\ copen = FALSE

InitCtx ==
    /\ hdr \in [Requests -> Headers]
    /\ \A r \in Requests : hdr[r] \in HeadersOf(r)
    /\ mw \in Middlewares
    /\ mpc = [r \in Requests |-> "idle"]
    /\ ctx = [t \in Tasks |-> DefaultContext]
    /\ ctx0 = [r \in Requests |-> DefaultContext]
    /\ tokens = [r \in Requests |-> [settings |-> NoToken, client |-> NoToken]]
    /\ status = [r \in Requests |-> 0]
    /\ tool = [t \in Tasks |-> "unborn"]
    /\ calls = {}
    /\ phdr = <<>>
    /\ stype = [r \in Requests |-> "http"]
    /\ InitHttpIdle

\* the ASGI scope types a server passes to its application
ScopeTypes == {"http", "websocket", "lifespan"}

\* IsHttp taking every scope for an HTTP request
IsHttpAlways(st) == TRUE

\* GrafanaAuthMiddleware.__call__: if scope["type"] == "http"
IsHttp(st) == st = "http"

\* whether the middleware looks at request r at all: GrafanaAuthMiddleware only at
\* HTTP scopes; GrafanaMiddleware is handed a Request by its endpoint
Inspects(r) == mw.kind = "auth" => IsHttp(stype[r])

\* EnterActivate with the wrapped application entered between the two set()
\* calls: the settings variable is bound, the client variable not yet
EnterActivateSettingsOnly(r) ==
    /\ mpc[r] = "idle"
    /\ Inspects(r)
    /\ LET info == from_headers(mw, hdr[r])
           t == RootTask(r)
           new_settings == NewSettings(info, ctx[t].settings)
       IN  /\ info # NoInfo
           /\ ~ClientRaises(new_settings)
           /\ ctx' = CtxSet(ctx, t, "settings", new_settings)
           /\ tokens' = [tokens EXCEPT ![r].settings = Token(ctx[t].settings)]
    /\ mpc' = [mpc EXCEPT ![r] = "app"]
    /\ UNCHANGED <<stype, hdr, mw, ctx0, status, tool, calls, phdr, httpVars>>

\* headers present and the client is built: both variables are set, then the
\* wrapped application runs
EnterActivate(r) ==
    /\ mpc[r] = "idle"
    /\ Inspects(r)
    /\ LET info == from_headers(mw, hdr[r])
           t == RootTask(r)
           new_settings == NewSettings(info, ctx[t].settings)
       IN  /\ info # NoInfo
           /\ ~ClientRaises(new_settings)
           /\ ctx' = CtxSet(CtxSet(ctx, t, "settings", new_settings),
                            t, "client", FromSettings(new_settings))
           /\ tokens' = [tokens EXCEPT ![r] = [settings |-> Token(ctx[t].settings),
                                                client |-> Token(ctx[t].client)]]
    /\ mpc' = [mpc EXCEPT ![r] = "app"]
    /\ UNCHANGED <<stype, hdr, mw, ctx0, status, tool, calls, phdr, httpVars>>

\* headers present, the settings variable is set, and GrafanaClient.from_settings
\* raises: the exception leaves the middleware before its try / before __aenter__
\* has returned, so nothing resets the settings variable
EnterClientRaises(r) ==
    /\ mpc[r] = "idle"
    /\ Inspects(r)
    /\ LET info == from_headers(mw, hdr[r])
           t == RootTask(r)
           new_settings == NewSettings(info, ctx[t].settings)
       IN  /\ info # NoInfo
           /\ ClientRaises(new_settings)
           /\ ctx' = CtxSet(ctx, t, "settings", new_settings)
           /\ tokens' = [tokens EXCEPT ![r].settings = Token(ctx[t].settings)]
    /\ mpc' = [mpc EXCEPT ![r] = "enter_raised"]
    /\ UNCHANGED <<stype, hdr, mw, ctx0, status, tool, calls, phdr, httpVars>>

\* EnterPassThrough binding the process defaults for the request, to be reset on exit
EnterPassThroughBindsDefault(r) ==
    /\ mpc[r] = "idle"
    /\ Inspects(r)
    /\ from_headers(mw, hdr[r]) = NoInfo
    /\ ~mw.fail_if_unset
    /\ mpc' = [mpc EXCEPT ![r] = "app"]
    /\ ctx' = CtxSet(CtxSet(ctx, RootTask(r), "settings", DefaultSettings),
                     RootTask(r), "client", FromSettings(DefaultSettings))
    /\ tokens' = [tokens EXCEPT ![r] = [settings |-> Token(ctx[RootTask(r)].settings),
                                        client |-> Token(ctx[RootTask(r)].client)]]
    /\ UNCHANGED <<stype, hdr, mw, ctx0, status, tool, calls, phdr, httpVars>>

\* EnterPassThrough with fail_if_unset never consulted
EnterPassThroughAlways(r) ==
    /\ mpc[r] = "idle"
    /\ Inspects(r)
    /\ from_headers(mw, hdr[r]) = NoInfo
    /\ mpc' = [mpc EXCEPT ![r] = "app"]
    /\ UNCHANGED <<stype, hdr, mw, ctx, ctx0, tokens, status, tool, calls, phdr, httpVars>>

\* no Grafana info in the headers and the middleware is not fail-closed
EnterPassThrough(r) ==
    /\ mpc[r] = "idle"
    /\ Inspects(r)
    /\ from_headers(mw, hdr[r]) = NoInfo
    /\ ~mw.fail_if_unset
    /\ mpc' = [mpc EXCEPT ![r] = "app"]
    /\ UNCHANGED <<stype, hdr, mw, ctx, ctx0, tokens, status, tool, calls, phdr, httpVars>>

\* no Grafana info in the headers, fail_if_unset: HTTPException(403)
EnterReject(r) ==
    /\ mpc[r] = "idle"
    /\ Inspects(r)
    /\ from_headers(mw, hdr[r]) = NoInfo
    /\ mw.fail_if_unset
    /\ status' = [status EXCEPT ![r] = 403]
    /\ mpc' = [mpc EXCEPT ![r] = "rejected"]
    /\ UNCHANGED <<stype, hdr, mw, ctx, ctx0, tokens, tool, calls, phdr, httpVars>>

\* the engine, running under the middleware in request r's task, starts a task for
\* a tool invocation: the new task gets a copy of the current context
SpawnTool(r) ==
    /\ mpc[r] = "app"
    /\ \E t \in ToolTasks(r) :
         /\ tool[t] = "unborn"
         /\ \A u \in ToolTasks(r) : u[2] < t[2] => tool[u] # "unborn"
         /\ tool' = [tool EXCEPT ![t] = "spawned"]
         /\ ctx' = [ctx EXCEPT ![t] = ctx[RootTask(r)]]
    /\ UNCHANGED <<stype, hdr, mw, mpc, ctx0, tokens, status, calls, phdr, httpVars>>

\* a tool reads grafana_settings / grafana_client in its own task and calls upstream
ToolCall(r) ==
    /\ \E t \in ToolTasks(r) :
         /\ tool[t] = "spawned"
         /\ tool' = [tool EXCEPT ![t] = "called"]
         /\ calls' = calls \cup {[req |-> r, settings_url |-> ctx[t].settings.url,
                                  client_url |-> ctx[t].client.url]}
    /\ UNCHANGED <<stype, hdr, mw, mpc, ctx, ctx0, tokens, status, phdr, httpVars>>

\* the wrapped application returns, raises or is cancelled: the finally clause
\* (GrafanaAuthMiddleware) or __aexit__ (GrafanaMiddleware) resets both variables
Exit(r) ==
    /\ mpc[r] = "app"
    /\ \E how \in ExitKinds : mpc' = [mpc EXCEPT ![r] = how]
    /\ ctx' = ResetBoth(ctx, RootTask(r), tokens[r])
    /\ UNCHANGED <<stype, hdr, mw, ctx0, tokens, status, tool, calls, phdr, httpVars>>

\* GrafanaAuthMiddleware at a scope that is no HTTP request: the else branch,
\* await self.app(scope, receive, send), with no header read
EnterDelegate(r) ==
    /\ mpc[r] = "idle"
    /\ mw.kind = "auth"
    /\ ~IsHttp(stype[r])
    /\ mpc' = [mpc EXCEPT ![r] = "app"]
    /\ UNCHANGED <<stype, hdr, mw, ctx, ctx0, tokens, status, tool, calls, phdr, httpVars>>

NextCtx ==
    \E r \in Requests :
        \/ EnterActivate(r)
        \/ EnterClientRaises(r)
        \/ EnterPassThrough(r)
        \/ EnterReject(r)
        \/ SpawnTool(r)
        \/ ToolCall(r)
        \/ Exit(r)

SpecCtx == InitCtx /\ [][NextCtx]_vars

\* SpecScope: GrafanaAuthMiddleware called with scopes of every type, each with
\* any combination of the URL and API key headers
InitScope ==
    /\ stype \in [Requests -> ScopeTypes]
    /\ hdr \in [Requests -> HeadersOf(2)]
    /\ mw = [kind |-> "auth", fail_if_unset |-> FALSE]
    /\ mpc = [r \in Requests |-> "idle"]
    /\ ctx = [t \in Tasks |-> DefaultContext]
    /\ ctx0 = [r \in Requests |-> DefaultContext]
    /\ tokens = [r \in Requests |-> [settings |-> NoToken, client |-> NoToken]]
    /\ status = [r \in Requests |-> 0]
    /\ tool = [t \in Tasks |-> "unborn"]
    /\ calls = {}
    /\ phdr = <<>>
    /\ InitHttpIdle

NextScope ==
    \E r \in Requests :
        \/ EnterActivate(r)
        \/ EnterClientRaises(r)
        \/ EnterPassThrough(r)
        \/ EnterDelegate(r)
        \/ SpawnTool(r)
        \/ ToolCall(r)
        \/ Exit(r)

SpecScope == InitScope /\ [][NextScope]_vars

-----------------------------------------------------------------------------
(* SpecNest: one request whose task passes through a stack of credential scopes,
   one inside the other (an ASGI stack of GrafanaAuthMiddleware around an endpoint
   that enters GrafanaMiddleware).  Every scope reads the headers of the same
   request; all of them set and reset the two variables in the same task. *)

\* scopes nested in one task
MaxDepth == 2
Depths == 1..MaxDepth

NestTask == RootTask(1)

\* the settings the process was configured with: the defaults, or defaults with
\* tool categories switched by the configuration
ProcessSettings ==
    {DefaultSettings, [DefaultSettings EXCEPT !.tools = "configured-tools"]}
ProcessContexts == {[settings |-> st, client |-> FromSettings(st)] : st \in ProcessSettings}

\* the scope at depth d can be entered when the scope around it is running its
\* application, and left when the scope inside it is not running
CanEnter(d) == mpc[d] = "idle" /\ (IF d = 1 THEN TRUE ELSE mpc[d - 1] = "app")
CanExit(d) == mpc[d] = "app" /\ (IF d = MaxDepth THEN TRUE ELSE mpc[d + 1] # "app")

InitNest ==
    /\ hdr \in Headers
    /\ mw \in [Depths -> Middlewares]
    /\ mpc = [d \in Depths |-> "idle"]
    /\ \E c0 \in ProcessContexts :
         /\ ctx = [t \in {NestTask} |-> c0]
         /\ ctx0 = [d \in Depths |-> c0]
    /\ tokens = [d \in Depths |-> [settings |-> NoToken, client |-> NoToken]]
    /\ status = [d \in Depths |-> 0]
    /\ tool = <<>>
    /\ calls = {}
    /\ phdr = <<>>
    /\ stype = <<>>
    /\ InitHttpIdle

\* GrafanaAuthMiddleware.__call__ up to the call of the application, or
\* GrafanaMiddleware.__aenter__, at depth d: ctx0[d] remembers the context the scope
\* found
NestEnter(d) ==
    /\ CanEnter(d)
    /\ LET info == from_headers(mw[d], hdr)
           new_settings == NewSettings(info, ctx[NestTask].settings)
       IN  IF info = NoInfo
           THEN /\ mpc' = [mpc EXCEPT ![d] = IF mw[d].fail_if_unset THEN "rejected"
                                                                    ELSE "app"]
                /\ status' = [status EXCEPT ![d] = IF mw[d].fail_if_unset THEN 403 ELSE 0]
                /\ UNCHANGED <<ctx, tokens>>
           ELSE IF ClientRaises(new_settings)
           THEN /\ ctx' = CtxSet(ctx, NestTask, "settings", new_settings)
                /\ tokens' = [tokens EXCEPT ![d].settings = Token(ctx[NestTask].settings)]
                /\ mpc' = [mpc EXCEPT ![d] = "enter_raised"]
                /\ UNCHANGED status
           ELSE /\ ctx' = CtxSet(CtxSet(ctx, NestTask, "settings", new_settings),
                                 NestTask, "client", FromSettings(new_settings))
                /\ tokens' = [tokens EXCEPT ![d] =
                                 [settings |-> Token(ctx[NestTask].settings),
                                  client |-> Token(ctx[NestTask].client)]]
                /\ mpc' = [mpc EXCEPT ![d] = "app"]
                /\ UNCHANGED status
    /\ ctx0' = [ctx0 EXCEPT ![d] = ctx[NestTask]]
    /\ UNCHANGED <<stype, hdr, mw, tool, calls, phdr, httpVars>>

\* the application of the scope at depth d returns, raises or is cancelled: finally
\* / __aexit__ reset the variables with the tokens of that scope
NestExit(d) ==
    /\ CanExit(d)
    /\ \E how \in ExitKinds : mpc' = [mpc EXCEPT ![d] = how]
    /\ ctx' = ResetBoth(ctx, NestTask, tokens[d])
    /\ UNCHANGED <<stype, hdr, mw, ctx0, tokens, status, tool, calls, phdr, httpVars>>

NextNest == \E d \in Depths : NestEnter(d) \/ NestExit(d)

SpecNest == InitNest /\ [][NextNest]_vars

-----------------------------------------------------------------------------
(* SpecHttp: two requests through the application GrafanaMCP.run_http_async
   builds, Starlette(routes=[Mount("/", app=handle_http)]): handle_http is called
   by the router directly, no middleware is installed around it, and the engine it
   runs starts the tool tasks. *)

NoMiddleware == [kind |-> "none", fail_if_unset |-> FALSE]

InitHttpApp ==
    /\ hdr \in [Requests -> Headers]
    /\ \A r \in Requests : hdr[r] \in HeadersOf(r)
    /\ mw = NoMiddleware
    /\ mpc = [r \in Requests |-> "idle"]
    /\ ctx = [t \in Tasks |-> DefaultContext]
    /\ ctx0 = [r \in Requests |-> DefaultContext]
    /\ tokens = [r \in Requests |-> [settings |-> NoToken, client |-> NoToken]]
    /\ status = [r \in Requests |-> 0]
    /\ tool = [t \in Tasks |-> "unborn"]
    /\ calls = {}
    /\ phdr = <<>>
    /\ stype = [r \in Requests |-> "http"]
    /\ InitHttpIdle

\* the router calls handle_http for request r: the request's headers are not read
\* and neither context variable is touched before the engine runs
HandleHttp(r) ==
    /\ mpc[r] = "idle"
    /\ mpc' = [mpc EXCEPT ![r] = "app"]
    /\ UNCHANGED <<stype, hdr, mw, ctx, ctx0, tokens, status, tool, calls, phdr, httpVars>>

\* handle_http returns, raises or is cancelled
HandleHttpEnd(r) ==
    /\ mpc[r] = "app"
    /\ \E how \in ExitKinds : mpc' = [mpc EXCEPT ![r] = how]
    /\ UNCHANGED <<stype, hdr, mw, ctx, ctx0, tokens, status, tool, calls, phdr, httpVars>>

NextHttpApp ==
    \E r \in Requests :
        \/ HandleHttp(r)
        \/ SpawnTool(r)
        \/ ToolCall(r)
        \/ HandleHttpEnd(r)

SpecHttp == InitHttpApp /\ [][NextHttpApp]_vars

-----------------------------------------------------------------------------
(* The two middlewares side by side *)

\* GrafanaAuthMiddleware as it is written, and GrafanaMiddleware as handle_sse
\* constructs it (fail_if_unset left at its default)
AuthMiddleware == [kind |-> "auth", fail_if_unset |-> FALSE]
SseMiddleware == [kind |-> "sse", fail_if_unset |-> TRUE]
\* the middleware of the other transport
Counterpart(m) == IF m.kind = "auth" THEN SseMiddleware ELSE AuthMiddleware

\* what the entry of middleware m does for headers h when current_settings is in
\* effect: bind new settings, call the application with the settings in effect,
\* or raise HTTPException(403)
Decide(m, h, current_settings) ==
    LET info == from_headers(m, h)
    IN  IF info # NoInfo
        THEN [decision |-> "activate", settings |-> NewSettings(info, current_settings)]
        ELSE IF m.fail_if_unset
        THEN [decision |-> "reject", settings |-> current_settings]
        ELSE [decision |-> "pass", settings |-> current_settings]

-----------------------------------------------------------------------------
(* SpecSse: the header-authenticated SSE server (run_sse_async and
   run_sse_async_with_middleware, the same code twice).  GET /sse runs handle_sse
   in the connection's task: GrafanaMiddleware(request), fail_if_unset by default,
   binds the context, and the engine runs under it for the life of the connection.
   POST /messages/ is mounted on the transport's handle_post_message with no
   middleware: it hands the message to the engine of the session, which starts the
   tool in a task of its own task group, a copy of the connection's context.  The
   headers of the POST are kept in phdr for the tool task the message starts. *)

NoHeaders == [url |-> None, api_key |-> None, access_token |-> None, id_token |-> None]
\* the headers a POST /messages/ may carry: none, or the URL and key of a backend
PostHeaders ==
    {NoHeaders} \cup {[NoHeaders EXCEPT !.url = u, !.api_key = "key"] :
                         u \in {"http://A", "http://B"}}

InitSse ==
    /\ hdr \in [Requests -> HeadersOf(2)]
    /\ mw = SseMiddleware
    /\ mpc = [r \in Requests |-> "idle"]
    /\ ctx = [t \in Tasks |-> DefaultContext]
    /\ ctx0 = [r \in Requests |-> DefaultContext]
    /\ tokens = [r \in Requests |-> [settings |-> NoToken, client |-> NoToken]]
    /\ status = [r \in Requests |-> 0]
    /\ tool = [t \in Tasks |-> "unborn"]
    /\ calls = {}
    /\ phdr = [t \in Tasks |-> NoHeaders]
    /\ stype = [r \in Requests |-> "http"]
    /\ InitHttpIdle

\* PostMessage with the Grafana headers of the POST bound for the tool it starts
PostMessageBindsHeaders(r) ==
    /\ mpc[r] = "app"
    /\ \E t \in ToolTasks(r), h \in PostHeaders :
         /\ tool[t] = "unborn"
         /\ \A u \in ToolTasks(r) : u[2] < t[2] => tool[u] # "unborn"
         /\ tool' = [tool EXCEPT ![t] = "spawned"]
         /\ phdr' = [phdr EXCEPT ![t] = h]
         /\ LET info == SseFromHeaders(h)
                new_settings == NewSettings(info, ctx[RootTask(r)].settings)
            IN  ctx' = [ctx EXCEPT ![t] =
                          IF info = NoInfo THEN ctx[RootTask(r)]
                          ELSE [settings |-> new_settings,
                                client |-> FromSettings(new_settings)]]
    /\ UNCHANGED <<stype, hdr, mw, mpc, ctx0, tokens, status, calls, httpVars>>

\* POST /messages/ delivers a tool call to the session opened by connection r:
\* handle_post_message passes the message to the engine running in the
\* connection's task, which starts the tool task with a copy of its context
PostMessage(r) ==
    /\ mpc[r] = "app"
    /\ \E t \in ToolTasks(r), h \in PostHeaders :
         /\ tool[t] = "unborn"
         /\ \A u \in ToolTasks(r) : u[2] < t[2] => tool[u] # "unborn"
         /\ tool' = [tool EXCEPT ![t] = "spawned"]
         /\ phdr' = [phdr EXCEPT ![t] = h]
         /\ ctx' = [ctx EXCEPT ![t] = ctx[RootTask(r)]]
    /\ UNCHANGED <<stype, hdr, mw, mpc, ctx0, tokens, status, calls, httpVars>>

NextSse ==
    \E r \in Requests :
        \/ EnterActivate(r)
        \/ EnterClientRaises(r)
        \/ EnterReject(r)
        \/ PostMessage(r)
        \/ ToolCall(r)
        \/ Exit(r)

SpecSse == InitSse /\ [][NextSse]_vars

-----------------------------------------------------------------------------
(* Properties *)

\* C1: every upstream call made by a tool of a request whose headers activated a
\* context uses the settings and the client of that request's own backend, whatever
\* the other request does in between.
C1_Isolation ==
    \A c \in calls :
        tokens[c.req].client.set =>
            /\ c.settings_url = hdr[c.req].url
            /\ c.client_url = hdr[c.req].url

\* two requests bound to A and B are inside the application together, and a tool of
\* each has called upstream
C1_Witness ==
    /\ hdr[1].url = "http://A" /\ hdr[2].url = "http://B"
    /\ tokens[1].client.set /\ tokens[2].client.set
    /\ \E c1 \in calls, c2 \in calls : c1.req = 1 /\ c2.req = 2

\* C2: once a request that set a context variable has left the middleware (the
\* application returned, raised or was cancelled, or establishing the context
\* failed), the task's context is what it was when the request arrived.
C2_RevertedOnEveryExit ==
    \A r \in Requests :
        (tokens[r].settings.set /\ mpc[r] \in ExitKinds \cup {"enter_raised"})
            => ctx[RootTask(r)] = ctx0[r]

\* C3: a handler that has ended has sent exactly one HTTP response.
C3_ExactlyOneResponse ==
    pc = "done" => Len(responses) = 1

\* C4: a non-POST request gets 405 and a POST to another path gets 404, and in both
\* cases the handler never sends anything on the client-to-engine channel.
C4_RoutingRejects ==
    (method # "POST" \/ path # "/mcp") =>
        /\ engineSaw = <<>>
        /\ pc \in {"start", "finally", "done"}
        /\ pc # "start" =>
             /\ Len(responses) = 1
             /\ responses[1].status = (IF method # "POST" THEN 405 ELSE 404)

\* a POST to a path other than /mcp, with a valid message as its body, has been
\* answered and the handler is done
C4_Witness ==
    /\ method = "POST" /\ path # "/mcp"
    /\ body.text = "json" /\ body.obj \notin InvalidObjects
    /\ pc = "done" /\ Len(responses) = 1

C6_NotificationAccepted ==
    client_message.kind = "notification" =>
        /\ pc \notin {"reply_recv", "replied"}
        /\ Len(recvd) <= 1
        /\ responses # <<>> =>
             /\ Len(responses) = 1
             /\ responses[1].status = 202
             /\ responses[1].body = [text |-> "Accepted"]
        /\ (pc \in {"finally", "done"} /\ herr = "none") => responses # <<>>

\* a Notification has been forwarded and answered
C6_Witness ==
    /\ client_message.kind = "notification"
    /\ Len(engineSaw) = 3
    /\ pc = "done" /\ Len(responses) = 1

\* C7: for a Request the adapter receives exactly once after forwarding the message
\* (twice in all, counting the bootstrap acknowledgment), and the response is 200
\* with that one message as its JSON body, null-valued fields left out.
C7_RequestOneReceive ==
    client_message.kind = "request" =>
        /\ Len(recvd) <= 2
        /\ Len(engineSaw) < 3 => (Len(recvd) <= 1 /\ responses = <<>>)
        /\ responses # <<>> =>
             /\ Len(responses) = 1 /\ Len(recvd) = 2
             /\ responses[1].status = 200
             /\ LET b == responses[1].body
                    m == recvd[2]
                IN  /\ DOMAIN b \subseteq DOMAIN m \ {"kind"}
                    /\ \A k \in DOMAIN m \ {"kind"} :
                         IF k = "params" /\ m[k] = Null THEN k \notin DOMAIN b
                         ELSE k \in DOMAIN b /\ b[k] = m[k]
        /\ (pc \in {"finally", "done"} /\ herr = "none") => responses # <<>>

\* a Request has been answered with the engine's message
C7_Witness ==
    /\ client_message.kind = "request"
    /\ pc = "done" /\ Len(responses) = 1 /\ Len(recvd) = 2

\* C8: the 200 body of a Request is a Response or ErrorResponse with the Request's
\* id, never the bootstrap acknowledgment and never a notification.
C8_ReplyMatchesRequest ==
    (client_message.kind = "request" /\ responses # <<>>) =>
        LET b == responses[1].body
        IN  /\ "method" \notin DOMAIN b
            /\ "id" \in DOMAIN b
            /\ b.id = client_message.id
            /\ "result" \in DOMAIN b => b.result # "InitializeResult"

\* C9: the bootstrap is: send the initialize request (id 1), receive one message,
\* send the initialized notification, and only then the client's message; the
\* notification is never on its way before the acknowledgment has been received,
\* nothing is received after it, and the initialize request is sent once.
C9_BootstrapOrder ==
    /\ pc = "init_send" => (engineSaw = <<>> /\ recvd = <<>>)
    /\ pc = "init_recv" => (Len(engineSaw) = 1 /\ recvd = <<>>)
    /\ pc = "notif_send" => (Len(engineSaw) = 1 /\ Len(recvd) = 1)
    /\ pc = "msg_send" => (Len(engineSaw) = 2 /\ Len(recvd) = 1)
    /\ Len(engineSaw) >= 1 =>
         /\ engineSaw[1].kind = "request"
         /\ engineSaw[1].method = "initialize"
         /\ engineSaw[1].id = 1
    /\ Len(engineSaw) >= 2 =>
         /\ engineSaw[2].kind = "notification"
         /\ engineSaw[2].method = "notifications/initialized"
         /\ Len(recvd) >= 1
    /\ Cardinality({i \in 1..Len(engineSaw) :
                        engineSaw[i].kind = "request" /\ engineSaw[i].method = "initialize"}) <= 1

\* the bootstrap has completed and the client's message is about to be sent
C9_Witness ==
    /\ pc = "msg_send"
    /\ Len(engineSaw) = 2 /\ Len(recvd) = 1
    /\ recvd[1].kind = "response" /\ recvd[1].id = 1

\* C10: what the engine has received is always a prefix of <<initialize request,
\* initialized notification, client message>>, and the handler sends nothing more
\* once the engine has the client's message.
C10_EngineOrder ==
    /\ Len(engineSaw) <= 3
    /\ Len(engineSaw) >= 1 => (engineSaw[1].kind = "request" /\ engineSaw[1].method = "initialize")
    /\ Len(engineSaw) >= 2 =>
         (engineSaw[2].kind = "notification" /\ engineSaw[2].method = "notifications/initialized")
    /\ Len(engineSaw) = 3 =>
         /\ engineSaw[3] = client_message
         /\ \A k \in DOMAIN ModelDump(engineSaw[3]) :
              k \in DOMAIN body.obj /\ body.obj[k] = engineSaw[3][k]
         /\ pc \notin SendPcs

\* the engine has received all three messages
C10_Witness ==
    /\ Len(engineSaw) = 3
    /\ engineSaw[3].kind \in {"request", "notification"}

\* C11: once a response has been sent the handler only has its finally clause left,
\* and a handler that has ended (after a response, an exception or a cancellation)
\* has closed its ends of both channels; from then on a receive of the engine on
\* read_stream ends with EndOfStream and a send of the engine on write_stream raises
\* BrokenResourceError: neither blocks, and neither happens earlier.
C11_ClosedAfterResponse ==
    /\ responses # <<>> => pc \in {"finally", "done"}
    /\ pc = "done" => (~rsw /\ ~wsr)
    /\ (pc = "done" /\ eng = "running" /\ rs) => ENABLED EngineReceiveEnd
    /\ (pc = "done" /\ eng = "running" /\ ws /\ owed # <<>>) => ENABLED EngineSendBroken
    /\ eng \in {"end_of_stream", "broken_resource"} => pc = "done"

\* a response has been sent, and the engine's next receive has ended with
\* EndOfStream
C11_Witness ==
    /\ pc = "done" /\ Len(responses) = 1
    /\ responses[1].status \in {200, 202}
    /\ eng = "end_of_stream"

\* C12: whenever the engine task has raised while the handler is blocked in a
\* receive (for the bootstrap acknowledgment or for the reply), the handler
\* eventually ends with both its stream ends closed.
C12_FailureReleasesReceive ==
    (eng = "failed" /\ pc \in RecvPcs) ~> (pc = "done" /\ ~rsw /\ ~wsr)

\* a handler that was waiting for the reply to a forwarded Request has been
\* cancelled after the engine raised, and has ended
C12_Witness ==
    /\ eng = "failed" /\ herr = "Cancelled" /\ pc = "done"
    /\ client_message.kind = "request"
    /\ Len(engineSaw) = 3 /\ Len(recvd) = 1

\* C13: a handler that has ended because the engine raised or closed one of its
\* stream ends (its send or receive raised, or it was cancelled) has sent one
\* response of the 5xx class.
C13_EngineFailureGives5xx ==
    (pc = "done" /\ herr # "none") =>
        /\ Len(responses) = 1
        /\ responses[1].status >= 500

\* C14: while the handler waits for the acknowledgment of the synthesized initialize
\* request, the engine has been sent nothing else and no response exists; as long as
\* no message has been received the initialized notification and the client's
\* message are not sent and no response is; and the wait ends only in a step in
\* which a message arrives, or with write_stream closed by the engine, or with the
\* engine failed: nothing in the adapter ends it.
C14_InitializeWaitHangs ==
    /\ [](pc = "init_recv" => (Len(engineSaw) = 1 /\ recvd = <<>> /\ responses = <<>>))
    /\ []((recvd = <<>> /\ client_message # NoMessage) =>
            (Len(engineSaw) <= 1 /\ responses = <<>>))
    /\ [][(pc = "init_recv" /\ pc' # "init_recv") =>
            (recvd' # recvd \/ ~ws \/ eng = "failed")]_vars

\* the engine has taken the initialize request and returned without answering,
\* failing or closing: the handler waits and no step is possible any more
C14_Witness ==
    /\ pc = "init_recv" /\ eng = "returned"
    /\ rs /\ ws /\ rsw /\ wsr
    /\ responses = <<>>
    /\ ~ENABLED Next

\* C15: a request that carries the URL header and has passed the middleware's entry
\* (client construction not raising) is in the application with a context bound
\* from its headers, whatever credential headers it carries, and is never rejected;
\* a request without the URL header is in the application with nothing bound, or
\* was rejected with 403 by a fail-closed middleware.
C15_UrlHeaderActivates ==
    \A r \in Requests :
        /\ (hdr[r].url # None /\ mpc[r] \in {"app", "rejected"} \cup ExitKinds) =>
              /\ mpc[r] # "rejected"
              /\ tokens[r].settings.set /\ tokens[r].client.set
              /\ mpc[r] = "app" =>
                    /\ ctx[RootTask(r)].settings.url = hdr[r].url
                    /\ ctx[RootTask(r)].client.url = hdr[r].url
        /\ (hdr[r].url = None /\ mpc[r] # "idle") =>
              /\ ~tokens[r].settings.set /\ ~tokens[r].client.set
              /\ IF mw.fail_if_unset THEN mpc[r] = "rejected" /\ status[r] = 403
                 ELSE mpc[r] \in {"app"} \cup ExitKinds

\* C16: a request for which a context was activated carries the URL header and at
\* least one of the API key, access token and identity token headers.
C16_ActiveNeedsCredential ==
    \A r \in Requests :
        tokens[r].client.set =>
            /\ hdr[r].url # None
            /\ \/ hdr[r].api_key # None
               \/ hdr[r].access_token # None
               \/ hdr[r].id_token # None

\* C17: through the fail-closed GrafanaMiddleware a request without the Grafana
\* headers is rejected with 403 as soon as it is handled: neither context variable
\* was set or changed, the request never got into the SSE connection, and nothing
\* of the engine ran for it (no tool task exists).
C17_FailClosedRejects ==
    \A r \in Requests :
        (mw.kind = "sse" /\ mw.fail_if_unset
            /\ hdr[r].url = None /\ hdr[r].api_key = None) =>
            /\ mpc[r] \in {"idle", "rejected"}
            /\ mpc[r] = "rejected" <=> status[r] = 403
            /\ ~tokens[r].settings.set /\ ~tokens[r].client.set
            /\ ctx[RootTask(r)] = ctx0[r]
            /\ \A t \in ToolTasks(r) : tool[t] = "unborn" /\ ctx[t] = ctx0[r]
            /\ \A c \in calls : c.req # r

\* a request without the headers has been rejected while a request with them is
\* inside the application
C17_Witness ==
    /\ mw.kind = "sse" /\ mw.fail_if_unset
    /\ hdr[1].url = None /\ hdr[1].api_key = None
    /\ mpc[1] = "rejected" /\ status[1] = 403
    /\ mpc[2] = "app" /\ tokens[2].client.set

C19_ToolsInherited ==
    /\ \A d \in Depths :
          (mpc[d] = "app" /\ tokens[d].settings.set
              /\ \A e \in Depths : e > d => mpc[e] = "idle") =>
              /\ ctx[NestTask].settings.tools = ctx0[d].settings.tools
              /\ ctx[NestTask].settings.url = hdr.url
    /\ ctx[NestTask].settings.tools = ctx0[1].settings.tools

\* a process configured with its own tool flags has bound a context from headers
\* that carry every credential
C19_Witness ==
    /\ mpc[1] = "app" /\ tokens[1].settings.set /\ mpc[2] = "idle"
    /\ ctx0[1].settings.tools = "configured-tools"
    /\ ctx[NestTask].settings.url = "http://A"
    /\ ctx[NestTask].settings.api_key # None
    /\ ctx[NestTask].settings.access_token # None

\* C20: when a scope that activated a context is left, by return, exception or
\* cancellation, and the scope around it is still running (or it is the outermost),
\* both variables are exactly what that scope found on entry: the Active context of
\* its parent for an inner scope, the value before the stack for the outermost.
C20_NestedRoundTrip ==
    \A d \in Depths :
        (tokens[d].client.set /\ mpc[d] \in ExitKinds
            /\ (IF d = 1 THEN TRUE ELSE mpc[d - 1] = "app")) =>
            ctx[NestTask] = ctx0[d]

\* an inner GrafanaMiddleware scope, which had bound a context unlike its parent's,
\* has been left inside a GrafanaAuthMiddleware scope that is still Active: the
\* parent's context is current again, and it is not the process's
C20_Witness ==
    /\ mw[1].kind = "auth" /\ mw[2].kind = "sse"
    /\ hdr.access_token # None
    /\ mpc[1] = "app" /\ mpc[2] \in ExitKinds
    /\ tokens[1].client.set /\ tokens[2].client.set
    /\ ctx[NestTask] = ctx0[2]
    /\ ctx0[2] # ctx0[1]
    /\ ctx[NestTask].settings.access_token = hdr.access_token

\* C21: for a request that has passed its middleware's entry, the decision taken
\* (activate, pass through, reject) and the settings then in effect for it are the
\* ones the middleware of the other transport takes for the same headers.
C21_MiddlewaresAgree ==
    \A r \in Requests :
        mpc[r] \in {"app", "rejected"} =>
            LET other == Decide(Counterpart(mw), hdr[r], ctx0[r].settings)
            IN  /\ other.decision = (IF mpc[r] = "rejected" THEN "reject"
                                     ELSE IF tokens[r].client.set THEN "activate"
                                     ELSE "pass")
                /\ other.settings = ctx[RootTask(r)].settings

\* C22: every upstream call made by a tool of a request that carries the URL header
\* uses the settings and the client of the backend that header names.
C22_HttpCallReachesHeaderBackend ==
    \A c \in calls :
        hdr[c.req].url # None =>
            /\ c.settings_url = hdr[c.req].url
            /\ c.client_url = hdr[c.req].url

\* C23: a request sent again after the one before is over starts from a StreamPair
\* of its own with all four ends open, an engine session of its own and empty
\* handler state, exactly as the first request started; and whatever was served
\* before, the engine of the request gets the initialize request first and the
\* initialized notification second, the acknowledgment the handler received is the
\* one for its own initialize request, and a 200 carries the message received for
\* this request.
C23_Stateless ==
    /\ [][served' # served =>
            /\ pc' = "start" /\ herr' = "none" /\ client_message' = NoMessage
            /\ responses' = <<>> /\ recvd' = <<>>
            /\ rsw' /\ rs' /\ ws' /\ wsr'
            /\ eng' = "running" /\ engineSaw' = <<>> /\ owed' = <<>>
            /\ scope' = "open"
            /\ method' = method /\ path' = path /\ body' = body]_vars
    /\ [](/\ pc = "start" => (rsw /\ wsr /\ recvd = <<>> /\ engineSaw = <<>>
                                /\ responses = <<>>)
          /\ Len(engineSaw) >= 1 => engineSaw[1] = InitializeRequest
          /\ Len(engineSaw) >= 2 =>
                /\ engineSaw[2] = InitializedNotification
                /\ recvd[1] = JSONRPCResponse(BootstrapId, "InitializeResult")
          /\ (responses # <<>> /\ responses[1].status = 200) =>
                /\ Len(engineSaw) = 3
                /\ responses[1].body = ModelDump(recvd[2]))

\* the second of two identical Requests has been through its own handshake and
\* has been answered 200
C23_Witness ==
    /\ served = 1
    /\ pc = "done" /\ Len(responses) = 1 /\ responses[1].status = 200
    /\ Len(engineSaw) = 3 /\ Len(recvd) = 2

\* C24: no exception ever leaves http_client's task group, and when the POST
\* failed, or was answered with a status outside 2xx or with a body that is no
\* JSON-RPC message, what the caller is sent for a Request is one ErrorResponse
\* with the Request's id.
C24_UpstreamFailureIsErrorResponse ==
    /\ cerr = "none"
    /\ cpc # "raised"
    /\ (cpc = "done" /\ "id" \in DOMAIN body.obj /\ "method" \in DOMAIN body.obj
          /\ (HttpResponse.status \notin 200..299
                \/ ModelValidateJson(HttpResponse.body) = Invalid)) =>
          /\ Len(cread) = 1
          /\ cread[1].kind = "error"
          /\ cread[1].id = body.obj.id

\* C25: when the URL is /mcp and the caller wrote a Request, what the caller has
\* been sent is exactly one message, the engine's Response or ErrorResponse to
\* that Request (same id), and the server's engine had been sent the initialize
\* request, the initialized notification and then the caller's Request.
C25_ClientGetsEngineReply ==
    (cpc = "done" /\ path = "/mcp"
        /\ "id" \in DOMAIN body.obj /\ "method" \in DOMAIN body.obj) =>
        /\ Len(cread) = 1
        /\ cread[1].kind \in {"response", "error"}
        /\ cread[1].id = body.obj.id
        /\ Len(engineSaw) = 3
        /\ engineSaw[1] = InitializeRequest
        /\ engineSaw[2] = InitializedNotification
        /\ engineSaw[3] = ModelValidate(body.obj)
        /\ cread[1] = recvd[Len(recvd)]

\* C26: whenever the adapter sends an HTTP response, both adapter-side ends
\* (read_stream_writer, write_stream_reader) are open before and after the send;
\* an end is closed only by the handler's finally, with the handler then done,
\* and nothing is sent once an end is closed.
C26_ResponseBeforeClose ==
    /\ [][Len(responses') > Len(responses) => rsw /\ wsr /\ rsw' /\ wsr']_vars
    /\ [][(rsw /\ ~rsw') \/ (wsr /\ ~wsr') => pc = "finally" /\ pc' = "done"
                                                /\ responses' = responses]_vars
    /\ []((~rsw \/ ~wsr) => pc = "done")

\* a response has been sent and the adapter-side ends are closed after it
C26_Witness ==
    /\ pc = "done"
    /\ Len(responses) = 1
    /\ ~rsw /\ ~wsr

\* C27: once the handler has responded and closed its ends, an engine still
\* reading read_stream can always take the end-of-stream and does not read
\* forever: it ends (by the end-of-stream unless it ends or gives up reading of
\* its own accord first); and once handler and engine are both over the task
\* group of handle_message can exit and does exit.
C27_EngineEndsAndScopeExits ==
    /\ []((pc = "done" /\ responses # <<>> /\ eng = "running" /\ rs)
             => ENABLED EngineReceiveEnd)
    /\ (pc = "done" /\ responses # <<>> /\ eng = "running" /\ rs)
          ~> (eng # "running" \/ ~rs)
    /\ []((pc = "done" /\ eng # "running" /\ scope = "open")
             => ENABLED TaskGroupExit)
    /\ (pc = "done" /\ eng # "running") ~> (scope = "exited")

\* the handler responded and closed, the engine read the end-of-stream, and the
\* task group has exited
C27_Witness ==
    /\ pc = "done"
    /\ responses # <<>>
    /\ eng = "end_of_stream"
    /\ scope = "exited"

\* C28: wherever a tool invocation can observe the context (the request's task
\* while the wrapped application runs, and every task started for a tool, also
\* after the middleware has reverted), the client variable holds the client built
\* from the settings variable, and every upstream call was made with a client of
\* the backend its settings name.
C28_ClientMatchesSettings ==
    /\ \A r \in Requests :
         /\ mpc[r] = "app" =>
               ctx[RootTask(r)].client = FromSettings(ctx[RootTask(r)].settings)
         /\ \A t \in ToolTasks(r) :
               tool[t] # "unborn" => ctx[t].client = FromSettings(ctx[t].settings)
    /\ \A c \in calls : c.client_url = c.settings_url

\* a tool has called upstream under a context activated from the headers, and the
\* middleware has since reverted both variables in the request's task
C28_Witness ==
    \E r \in Requests : \E t \in ToolTasks(r) :
        /\ tool[t] = "called"
        /\ tokens[r].client.set
        /\ ctx[t].settings # DefaultSettings
        /\ mpc[r] \in ExitKinds
        /\ ctx[RootTask(r)] = DefaultContext

\* C29: in the SSE server every tool task runs under the context GrafanaMiddleware
\* bound from the headers of the GET /sse of its session, and every upstream call
\* goes to the backend those headers name, whatever headers the POST /messages/
\* that delivered the call carried.
C29_PostHeadersNotConsulted ==
    /\ \A r \in Requests : \A t \in ToolTasks(r) :
         tool[t] # "unborn" =>
           LET info == SseFromHeaders(hdr[r])
               bound == NewSettings(info, DefaultSettings)
           IN  /\ info # NoInfo
               /\ ctx[t] = [settings |-> bound, client |-> FromSettings(bound)]
    /\ \A c \in calls : c.settings_url = hdr[c.req].url /\ c.client_url = hdr[c.req].url

\* a tool call delivered by a POST carrying another backend's URL and key has
\* called the backend of its session's GET
C29_Witness ==
    \E r \in Requests : \E t \in ToolTasks(r) :
        /\ tool[t] = "called"
        /\ SseFromHeaders(phdr[t]) # NoInfo
        /\ phdr[t].url # hdr[r].url
        /\ [req |-> r, settings_url |-> hdr[r].url, client_url |-> hdr[r].url] \in calls

\* C30: a request that is neither a POST nor to /mcp is answered by the method
\* check: its response is the 405 "Method not allowed", and no 404 is ever sent.
C30_MethodBeforePath ==
    (method # "POST" /\ path # "/mcp") =>
        /\ pc # "start" => responses # <<>>
        /\ \A i \in 1..Len(responses) :
             /\ responses[i].status # 404
             /\ responses[i] = Response(PlainText("Method not allowed"), 405)

\* a GET to a path other than /mcp has been answered
C30_Witness ==
    /\ method = "GET" /\ path = "/other"
    /\ responses # <<>>
    /\ pc \in {"finally", "done"}

\* C31: a 202 has been sent only when the engine has received, in this order, the
\* initialize request, the initialized notification and the client's
\* notification; a send of the handler completes only in the step in which the
\* engine receives the message sent (otherwise it ends in an exception); the
\* engine receives only while it runs with its receiving end open; and a handler
\* sending to an engine that is over, has not raised and has left its receiving
\* end open cannot take a step, so it never reaches the 202.
C31_AcceptedAfterRendezvous ==
    /\ [](\A i \in 1..Len(responses) :
             responses[i].status = 202 =>
               /\ client_message.kind = "notification"
               /\ engineSaw = <<InitializeRequest, InitializedNotification,
                                client_message>>)
    /\ [][(pc \in SendPcs /\ pc' # pc) =>
             \/ /\ pc' = AfterSend(pc, client_message)
                /\ engineSaw' = Append(engineSaw, Offered(pc, client_message))
             \/ pc' = "finally" /\ herr' # "none" /\ engineSaw' = engineSaw]_vars
    /\ [][Len(engineSaw') > Len(engineSaw) => eng = "running" /\ rs]_vars
    /\ []((pc \in SendPcs /\ rs /\ eng \notin {"running", "failed"}) =>
             /\ ~ENABLED EngineReceive
             /\ ~ENABLED SendBroken
             /\ ~ENABLED Cancelled
             /\ responses = <<>>)

\* the 202 of a Notification has just been sent, the engine having received the
\* three messages and still running
C31_Witness ==
    /\ pc = "finally"
    /\ Len(responses) = 1 /\ responses[1].status = 202
    /\ Len(engineSaw) = 3
    /\ engineSaw[3] = client_message
    /\ eng = "running" /\ rs

\* C32: when the send of the client's message completes, the handler goes to the
\* 202 exactly when the message is a Notification and to the receive otherwise;
\* a Response or ErrorResponse of the client is the third message the engine
\* gets, it is never answered 202, a response to it is sent only after a second
\* message of the engine has been received, and while the engine has emitted none
\* (and has neither closed its sending end nor raised) the handler cannot leave
\* the receive.
C32_OnlyNotificationSkipsWait ==
    /\ [][(pc = "msg_send" /\ pc' \notin {"msg_send", "finally"}) =>
             /\ engineSaw' = Append(engineSaw, client_message)
             /\ pc' = (IF client_message.kind = "notification"
                         THEN "accepted" ELSE "reply_recv")]_vars
    /\ [](client_message.kind \in {"response", "error"} =>
             /\ pc # "accepted"
             /\ Len(engineSaw) >= 3 => engineSaw[3] = client_message
             /\ responses # <<>> => Len(recvd) = 2
             /\ (pc = "reply_recv" /\ owed = <<>> /\ ws /\ eng # "failed") =>
                  /\ ~ENABLED EngineSend
                  /\ ~ENABLED ReceiveEnd
                  /\ ~ENABLED Cancelled
                  /\ responses = <<>>)

\* a Response of the client has been forwarded to the engine and the handler is
\* waiting for a message of the engine, which owes none
C32_Witness ==
    /\ client_message.kind \in {"response", "error"}
    /\ Len(engineSaw) = 3 /\ engineSaw[3] = client_message
    /\ pc = "reply_recv"
    /\ owed = <<>> /\ eng = "running" /\ ws
    /\ responses = <<>>

\* C33: in one http_client context at most one send of the caller is taken from
\* write_stream and at most one message is delivered on read_stream; every
\* further send stays pending while the context is open and has failed on the
\* closed stream (BrokenResourceError) once it has exited.
C33_OneMessagePerContext ==
    /\ Cardinality({i \in 1..Len(cwrites) : cwrites[i].state = "taken"}) <= 1
    /\ Len(cread) <= 1
    /\ \A i \in 1..Len(cwrites) :
         i > 1 =>
           /\ cwrites[i].state # "taken"
           /\ copen => cwrites[i].state = "blocked"
           /\ ~copen => cwrites[i].state = "broken"

\* C34: at a scope whose type is not "http" GrafanaAuthMiddleware only calls the
\* wrapped application: whatever the headers, neither variable is ever set in the
\* request's task (no token is taken, the context stays the one the scope found),
\* the middleware never raises on entry, and the tools started under it and
\* their upstream calls use the context the scope found.
C34_NonHttpUntouched ==
    \A r \in Requests :
        stype[r] # "http" =>
            /\ ctx[RootTask(r)] = ctx0[r]
            /\ tokens[r] = [settings |-> NoToken, client |-> NoToken]
            /\ mpc[r] \in {"idle", "app"} \cup ExitKinds
            /\ \A t \in ToolTasks(r) : tool[t] # "unborn" => ctx[t] = ctx0[r]
            /\ \A c \in calls :
                 c.req = r => /\ c.settings_url = ctx0[r].settings.url
                              /\ c.client_url = ctx0[r].client.url

\* a websocket scope carrying the URL and key of a backend has run the application
\* and a tool under it, and the application has returned
C34_Witness ==
    \E r \in Requests :
        /\ stype[r] = "websocket"
        /\ hdr[r].url = "http://A" /\ hdr[r].api_key = "key"
        /\ mpc[r] = "returned"
        /\ \E t \in ToolTasks(r) : tool[t] = "called"

====
